---- MODULE Spec2Model ----
(***************************************************************************)
(* Junction partitioning and hierarchical clustering of iGenVar            *)
(* (src/modules/clustering/hierarchical_clustering_method.cpp).            *)
(*                                                                         *)
(* Sequences are 1-based here, the C++ vectors are 0-based.  Linkage       *)
(* heights are exact rationals <<num, den>> (the code holds them in        *)
(* doubles); cutoffs are integers.                                         *)
(***************************************************************************)
EXTENDS Integers, Sequences, FiniteSets, TLC

VARIABLES mode, junctions, clustering_cutoff, pc, partitions, p, subsampled,
          assert_failed, partition_size, k, out_of_bounds, merge, height,
          labels, label_to_junctions, clusters, lhs, rhs, dist

vars == <<mode, junctions, clustering_cutoff, pc, partitions, p, subsampled,
          assert_failed, partition_size, k, out_of_bounds, merge, height,
          labels, label_to_junctions, clusters, lhs, rhs, dist>>

(***************************************************************************)
(* Bounds of the model                                                     *)
(***************************************************************************)
\* longest enumerated input of hierarchical_clustering_method
MaxLen == 3
\* number of junctions by which the oversized inputs exceed the ceiling
MaxExcess == 1

(***************************************************************************)
(* Program constants                                                       *)
(***************************************************************************)
\* position tolerance of the greedy split (both mates)
Tolerance == 50
\* const size_t max_partition_size = 200
max_partition_size == 200
\* std::numeric_limits<int>::max()
INT_MAX == 2147483647

\* strand::forward, strand::reverse
forward == 0
reverse == 1

(***************************************************************************)
(* Data model                                                              *)
(***************************************************************************)
Breakend(n, o, pos) == [seq_name |-> n, orientation |-> o, position |-> pos]

Junction(m1, m2, ins) == [mate1 |-> m1, mate2 |-> m2, inserted_sequence |-> ins]

Abs(x) == IF x < 0 THEN -x ELSE x

\* operator< of Breakend: sequence name, then orientation, then position
BreakendLess(a, b) ==
    IF a.seq_name # b.seq_name THEN a.seq_name < b.seq_name
    ELSE IF a.orientation # b.orientation THEN a.orientation < b.orientation
    ELSE a.position < b.position

\* lexicographic comparison of two inserted sequences
RECURSIVE SeqLess(_, _)
SeqLess(s, t) ==
    IF t = <<>> THEN FALSE
    ELSE IF s = <<>> THEN TRUE
    ELSE IF Head(s) # Head(t) THEN Head(s) < Head(t)
    ELSE SeqLess(Tail(s), Tail(t))

\* operator< of Junction: mate1, then mate2, then the inserted sequence
JunctionLess(a, b) ==
    IF a.mate1 # b.mate1 THEN BreakendLess(a.mate1, b.mate1)
    ELSE IF a.mate2 # b.mate2 THEN BreakendLess(a.mate2, b.mate2)
    ELSE SeqLess(a.inserted_sequence, b.inserted_sequence)

\* the comparator of the mate-2 sort in partition_junctions
Mate2Less(a, b) == BreakendLess(a.mate2, b.mate2)

\* operator< of Cluster: by the lead junction of each cluster
ClusterLess(c, d) == JunctionLess(c[1], d[1])

\* std::sort with the three comparators used by the code
SortJunctions(s) == SortSeq(s, JunctionLess)

SortByMate2(s) == SortSeq(s, Mate2Less)

\* the cluster list left as it is
SortClustersSkipped(s) == s

SortClusters(s) == SortSeq(s, ClusterLess)

(***************************************************************************)
(* Partitioner                                                             *)
(***************************************************************************)
\* the condition that starts a new mate-1 group (lines 25-27)
Mate1Breaks(junction, back) ==
    \/ junction.mate1.seq_name # back.mate1.seq_name
    \/ junction.mate1.orientation # back.mate1.orientation
    \/ Abs(junction.mate1.position - back.mate1.position) > Tolerance

\* the mate-2 condition without the comparison of the orientations
Mate2BreaksIgnoringOrientation(junction, back) ==
    \/ junction.mate2.seq_name # back.mate2.seq_name
    \/ Abs(junction.mate2.position - back.mate2.position) > Tolerance

\* the mate-2 condition without the comparison of the positions
Mate2BreaksIgnoringPosition(junction, back) ==
    \/ junction.mate2.seq_name # back.mate2.seq_name
    \/ junction.mate2.orientation # back.mate2.orientation

\* the condition that starts a new mate-2 group (lines 70-72)
Mate2Breaks(junction, back) ==
    \/ junction.mate2.seq_name # back.mate2.seq_name
    \/ junction.mate2.orientation # back.mate2.orientation
    \/ Abs(junction.mate2.position - back.mate2.position) > Tolerance

\* one iteration of the loop of split_partition_based_on_mate2 (lines
\* 62-80): st holds the index i of the element, current_partition cur and
\* splitted_partition done
SplitBody(partition, st) ==
    LET junction == partition[st.i] IN
    IF st.cur = <<>>
    THEN [i |-> st.i + 1, cur |-> <<junction>>, done |-> st.done]
    ELSE IF Mate2Breaks(junction, st.cur[Len(st.cur)])
         THEN [i |-> st.i + 1, cur |-> <<junction>>,
               done |-> Append(st.done, SortJunctions(st.cur))]
         ELSE [i |-> st.i + 1, cur |-> Append(st.cur, junction), done |-> st.done]

\* m iterations of the loop.  The result of each iteration and of the first
\* half of the iterations is evaluated to a value (the element of a set,
\* compared with itself) before it is used, which keeps the evaluation
\* shallow
RECURSIVE SplitLoop(_, _, _)
SplitLoop(partition, st, m) ==
    IF m = 0 THEN st
    ELSE IF m = 1 THEN CHOOSE r \in {SplitBody(partition, st)} : r = r
    ELSE CHOOSE r \in {SplitLoop(partition, mid, m - (m \div 2)) :
                        mid \in {SplitLoop(partition, st, m \div 2)}} : r = r

\* the split without the push of the last group after the loop
split_partition_losing_last_group(partition) ==
    SplitLoop(partition, [i |-> 1, cur |-> <<>>, done |-> <<>>], Len(partition)).done

split_partition_based_on_mate2(partition) ==
    LET st == SplitLoop(partition, [i |-> 1, cur |-> <<>>, done |-> <<>>],
                        Len(partition))
    IN  IF st.cur # <<>> THEN Append(st.done, SortJunctions(st.cur)) ELSE st.done

\* what the code does with a completed mate-1 group (lines 30-37, 45-52)
FlushMate1Group(cur, final) ==
    final \o split_partition_based_on_mate2(SortByMate2(cur))

\* one iteration of the loop of partition_junctions (lines 17-42)
PartitionBody(js, st) ==
    LET junction == js[st.i] IN
    IF st.cur = <<>>
    THEN [i |-> st.i + 1, cur |-> <<junction>>, final |-> st.final]
    ELSE IF Mate1Breaks(junction, st.cur[Len(st.cur)])
         THEN [i |-> st.i + 1, cur |-> <<junction>>,
               final |-> FlushMate1Group(st.cur, st.final)]
         ELSE [i |-> st.i + 1, cur |-> Append(st.cur, junction), final |-> st.final]

RECURSIVE PartitionLoop(_, _, _)
PartitionLoop(js, st, m) ==
    IF m = 0 THEN st
    ELSE IF m = 1 THEN CHOOSE r \in {PartitionBody(js, st)} : r = r
    ELSE CHOOSE r \in {PartitionLoop(js, mid, m - (m \div 2)) :
                        mid \in {PartitionLoop(js, st, m \div 2)}} : r = r

partition_junctions(js) ==
    LET st == PartitionLoop(js, [i |-> 1, cur |-> <<>>, final |-> <<>>], Len(js))
    IN  IF st.cur # <<>> THEN FlushMate1Group(st.cur, st.final) ELSE st.final

(***************************************************************************)
(* Distance metric                                                         *)
(***************************************************************************)
\* (int)(a - b) for two size_t lengths: the subtraction wraps modulo 2^64
\* and the cast keeps the low 32 bits as a signed value, which is the signed
\* difference for all lengths below 2^31
SizeDiffAsInt(a, b) == a - b

\* the distance without the comparison of the mate-2 orientations
junction_distance_ignoring_mate2_orientation(l, r) ==
    IF /\ l.mate1.seq_name = r.mate1.seq_name
       /\ l.mate1.orientation = r.mate1.orientation
       /\ l.mate2.seq_name = r.mate2.seq_name
    THEN Abs(l.mate1.position - r.mate1.position)
         + Abs(l.mate2.position - r.mate2.position)
         + Abs(SizeDiffAsInt(Len(l.inserted_sequence), Len(r.inserted_sequence)))
    ELSE INT_MAX

junction_distance(l, r) ==
    IF /\ l.mate1.seq_name = r.mate1.seq_name
       /\ l.mate1.orientation = r.mate1.orientation
       /\ l.mate2.seq_name = r.mate2.seq_name
       /\ l.mate2.orientation = r.mate2.orientation
    THEN Abs(l.mate1.position - r.mate1.position)
         + Abs(l.mate2.position - r.mate2.position)
         + Abs(SizeDiffAsInt(Len(l.inserted_sequence), Len(r.inserted_sequence)))
    ELSE INT_MAX

(***************************************************************************)
(* Subsampler                                                              *)
(***************************************************************************)
\* conversion of the size_t argument to the uint16_t parameter sample_size
ToUint16(x) == x % 65536

\* all subsets of 1..n with e elements
RECURSIVE KSubsets(_, _)
KSubsets(n, e) ==
    IF e = 0 THEN {{}}
    ELSE {D \cup {x} : D \in KSubsets(n, e - 1), x \in 1 .. n} \ KSubsets(n, e - 1)

\* the subsequence of s at the indices not in drop, in the order of s
DropIndices(s, drop) ==
    LET kept == SelectSeq([i \in 1 .. Len(s) |-> i], LAMBDA i : i \notin drop)
    IN  [i \in 1 .. Len(kept) |-> s[kept[i]]]

\* a sample drawn with replacement: the first element sample_size times
subsample_with_replacement(partition, sample_size) ==
    {[i \in 1 .. sample_size |-> partition[1]]}

\* a sample that is one element short
subsample_one_short(partition, sample_size) ==
    {SubSeq(partition, 1, sample_size - 1)}

\* the possible results of std::sample: sample_size elements drawn without
\* replacement (all of them when there are fewer), relative order preserved
subsample_partition(partition, sample_size) ==
    IF Len(partition) <= sample_size THEN {partition}
    ELSE {DropIndices(partition, drop) :
             drop \in KSubsets(Len(partition), Len(partition) - sample_size)}

\* assert(partition.size() >= sample_size)
SubsampleAssertHolds(partition, sample_size) == Len(partition) >= sample_size

(***************************************************************************)
(* Condensed distance matrix                                               *)
(***************************************************************************)
\* the pairs <<i, j>> visited by the loop of lines 152-158 (0-based as in
\* the code)
PairsOf(n) == {pr \in (0 .. n - 1) \X (0 .. n - 1) : pr[1] < pr[2]}

InBounds(partition, i) == i < Len(partition)

\* the matrix entry computed from junction i alone
DistAtSameIndex(partition, i, j) ==
    IF InBounds(partition, i) /\ InBounds(partition, j)
    THEN junction_distance(partition[i + 1], partition[i + 1])
    ELSE 0

DistAt(partition, i, j) ==
    IF InBounds(partition, i) /\ InBounds(partition, j)
    THEN junction_distance(partition[i + 1], partition[j + 1])
    ELSE 0

\* the condensed matrix, read as distmat[i][j] for i < j
distmat_of(partition, n) ==
    [i \in 0 .. n - 1 |-> [j \in 0 .. n - 1 |->
        IF i < j THEN DistAt(partition, i, j) ELSE 0]]

\* the final value of k: the number of times the inner loop body runs
CountK(n) == Cardinality(PairsOf(n))

(***************************************************************************)
(* Average linkage (hclust_fast with HCLUST_METHOD_AVERAGE)                *)
(***************************************************************************)
RECURSIVE GCD(_, _)
GCD(a, b) == IF b = 0 THEN a ELSE GCD(b, a % b)

\* the rational s / c in lowest terms
Rat(s, c) == LET g == GCD(s, c) IN <<s \div g, c \div g>>

RatLeq(x, y) == x[1] * y[2] <= y[1] * x[2]

Min(S) == CHOOSE x \in S : \A y \in S : x <= y

\* the average-linkage update of the distance to the merged cluster:
\* (ni * x + nj * y) / (ni + nj)
AvgUpdate(x, ni, y, nj) ==
    Rat(ni * x[1] * y[2] + nj * y[1] * x[2], x[2] * y[2] * (ni + nj))

\* one merge step: the closest pair of clusters (the first one in the
\* order of the pair enumeration among equally close pairs) is merged
\* into the cluster of the smaller index.  A[i][j] (i < j) is the average
\* distance of the active clusters i and j, node[i] is 0 for a leaf and
\* the step that formed the cluster otherwise; merge uses the R
\* convention: -(i+1) for leaf i, s for the cluster formed at step s.
LinkageStep(st) ==
    LET act   == st.active
        At(a, b) == IF a < b THEN st.A[a][b] ELSE st.A[b][a]
        vals  == {st.A[pr[1]][pr[2]] : pr \in {q \in act \X act : q[1] < q[2]}}
        minV  == CHOOSE v \in vals : \A w \in vals : RatLeq(v, w)
        i0    == Min({i \in act : \E j \in act : i < j /\ st.A[i][j] = minV})
        j0    == Min({j \in act : i0 < j /\ st.A[i0][j] = minV})
        Name(x) == IF st.node[x] = 0 THEN -(x + 1) ELSE st.node[x]
        New(x) == AvgUpdate(At(i0, x), st.size[i0], At(j0, x), st.size[j0])
    IN  [step   |-> st.step + 1,
         active |-> act \ {j0},
         A      |-> [i \in DOMAIN st.A |->
                       IF i = i0
                       THEN [j \in DOMAIN st.A |->
                               IF j \in act /\ j # j0 /\ i0 < j THEN New(j)
                               ELSE st.A[i][j]]
                       ELSE IF i \in act /\ i < i0
                            THEN [st.A[i] EXCEPT ![i0] = New(i)]
                            ELSE st.A[i]],
         size   |-> [st.size EXCEPT ![i0] = st.size[i0] + st.size[j0]],
         node   |-> [st.node EXCEPT ![i0] = st.step],
         merge  |-> Append(st.merge, <<Name(i0), Name(j0)>>),
         height |-> Append(st.height, minV)]

RECURSIVE LinkageLoop(_, _)
LinkageLoop(st, m) ==
    IF m = 0 THEN st
    ELSE IF m = 1 THEN CHOOSE r \in {LinkageStep(st)} : r = r
    ELSE CHOOSE r \in {LinkageLoop(mid, m - (m \div 2)) :
                        mid \in {LinkageLoop(st, m \div 2)}} : r = r

\* n - 1 merge steps from the n leaves
hclust_fast(n, distmat) ==
    LET st == LinkageLoop([step |-> 1, active |-> 0 .. n - 1,
                           A |-> [i \in 0 .. n - 1 |-> [j \in 0 .. n - 1 |->
                                     Rat(distmat[i][j], 1)]],
                           size |-> [i \in 0 .. n - 1 |-> 1],
                           node |-> [i \in 0 .. n - 1 |-> 0],
                           merge |-> <<>>, height |-> <<>>], n - 1)
    IN  [merge |-> st.merge, height |-> st.height]

(***************************************************************************)
(* Dendrogram cut (cutree_cdist, cutree_k)                                 *)
(***************************************************************************)
\* height[k] >= cdist for a rational height and an integer cdist
HeightGeq(h, cdist) == h[1] >= cdist * h[2]

\* the value of k after the loop of cutree_cdist: the number of merge
\* steps before the first one whose height is >= cdist
StopIndex(hs, cdist) ==
    Min({kk \in 0 .. Len(hs) : kk = Len(hs) \/ HeightGeq(hs[kk + 1], cdist)})

\* merge step kk of cutree_k: last_merge holds for each leaf the number of
\* the last step that merged it
LastMergeBody(mg, st) ==
    LET m1 == mg[st.kk][1]
        m2 == mg[st.kk][2]
    IN  [kk |-> st.kk + 1,
         lm |-> [l \in DOMAIN st.lm |->
                   IF \/ (m1 < 0 /\ l = -m1 - 1)
                      \/ (m2 < 0 /\ l = -m2 - 1)
                      \/ (m1 > 0 /\ st.lm[l] = m1)
                      \/ (m2 > 0 /\ st.lm[l] = m2)
                   THEN st.kk ELSE st.lm[l]]]

RECURSIVE LastMergeLoop(_, _, _)
LastMergeLoop(mg, st, m) ==
    IF m = 0 THEN st
    ELSE IF m = 1 THEN CHOOSE r \in {LastMergeBody(mg, st)} : r = r
    ELSE CHOOSE r \in {LastMergeLoop(mg, mid, m - (m \div 2)) :
                        mid \in {LastMergeLoop(mg, st, m \div 2)}} : r = r

\* the label loop of cutree_k for leaf st.j: a leaf that is still single
\* gets a fresh label, a merged leaf the label z of its last merge step,
\* which is fresh when the step is met for the first time
LabelBody(lm, st) ==
    LET j == st.j IN
    IF lm[j] = 0
    THEN [j |-> j + 1, label |-> st.label + 1, z |-> st.z,
          labels |-> Append(st.labels, st.label)]
    ELSE IF st.z[lm[j]] < 0
         THEN [j |-> j + 1, label |-> st.label + 1,
               z |-> [st.z EXCEPT ![lm[j]] = st.label],
               labels |-> Append(st.labels, st.label)]
         ELSE [j |-> j + 1, label |-> st.label, z |-> st.z,
               labels |-> Append(st.labels, st.z[lm[j]])]

RECURSIVE LabelLoop(_, _, _)
LabelLoop(lm, st, m) ==
    IF m = 0 THEN st
    ELSE IF m = 1 THEN CHOOSE r \in {LabelBody(lm, st)} : r = r
    ELSE CHOOSE r \in {LabelLoop(lm, mid, m - (m \div 2)) :
                        mid \in {LabelLoop(lm, st, m \div 2)}} : r = r

\* cuts the dendrogram into nclust clusters; labels[j + 1] is the label of
\* leaf j
cutree_k(n, mg, nclust) ==
    IF nclust > n \/ nclust < 2 THEN [j \in 1 .. n |-> 0]
    ELSE LET last == LastMergeLoop(mg, [kk |-> 1, lm |-> [l \in 0 .. n - 1 |-> 0]],
                                   n - nclust).lm
         IN  LabelLoop(last, [j |-> 0, label |-> 0, z |-> [s \in 0 .. n - 1 |-> -1],
                              labels |-> <<>>], n).labels

\* the clustering is stopped at the first step whose height is >= cdist
cutree_cdist(n, mg, hs, cdist) == cutree_k(n, mg, n - StopIndex(hs, cdist))

\* the cutoff taken for a number of clusters
ClusterLabelsByCount(n, mg, hs, cutoff) == cutree_k(n, mg, cutoff)

\* line 170: the labels of a partition for a cutoff
ClusterLabels(n, mg, hs, cutoff) == cutree_cdist(n, mg, hs, cutoff)

(***************************************************************************)
(* Cluster assembly                                                        *)
(***************************************************************************)
\* the label map built by lines 172-182: the junctions of each label in
\* index order
SelectLabel(partition, labs, lab) ==
    LET idx == SelectSeq([i \in 1 .. Len(labs) |-> i],
                         LAMBDA i : labs[i] = lab /\ i <= Len(partition))
    IN  [i \in 1 .. Len(idx) |-> partition[idx[i]]]

GroupByLabel(partition, labs) ==
    [lab \in {labs[i] : i \in 1 .. Len(labs)} |-> SelectLabel(partition, labs, lab)]

\* the orders in which a range-based for loop may visit the keys of an
\* unordered_map
IterationOrders(keys) ==
    {f \in [1 .. Cardinality(keys) -> keys] :
        \A a, b \in 1 .. Cardinality(keys) : a # b => f[a] # f[b]}

\* the loop without its last iteration
EmitClustersButLast(map, order) ==
    [i \in 1 .. Len(order) - 1 |-> SortJunctions(map[order[i]])]

\* the loop of lines 185-189 for one iteration order
EmitClusters(map, order) == [i \in 1 .. Len(order) |-> SortJunctions(map[order[i]])]

(***************************************************************************)
(* Inputs                                                                  *)
(***************************************************************************)
\* sequence names are numbered (they are compared with <)
SeqNames == {1, 2}

\* junctions the enumerated inputs are built from: a chain of mate-1
\* positions, a chain of mate-2 positions, one junction differing from J2
\* in each of the four signature fields, and junctions at distance 0
J1  == Junction(Breakend(1, forward, 0),  Breakend(1, forward, 500), <<>>)
J2  == Junction(Breakend(1, forward, 40), Breakend(1, forward, 500), <<>>)
J3  == Junction(Breakend(1, forward, 80), Breakend(1, forward, 500), <<1>>)
J4  == Junction(Breakend(1, forward, 40), Breakend(1, forward, 900), <<>>)
J5  == Junction(Breakend(1, reverse, 40), Breakend(1, forward, 500), <<>>)
J6  == Junction(Breakend(2, forward, 40), Breakend(1, forward, 500), <<>>)
J7  == Junction(Breakend(1, forward, 40), Breakend(1, reverse, 500), <<>>)
J8  == Junction(Breakend(1, forward, 40), Breakend(2, forward, 500), <<>>)
J9  == Junction(Breakend(1, forward, 40), Breakend(1, forward, 540), <<2>>)
J10 == Junction(Breakend(1, forward, 40), Breakend(1, forward, 580), <<>>)
J11 == Junction(Breakend(1, forward, 80), Breakend(1, forward, 500), <<2>>)

JunctionPool == {J1, J2, J3, J4, J5, J6, J7, J8, J9, J10, J11}

\* all sequences over S of length at most n
SeqsUpTo(S, n) == UNION {[1 .. m -> S] : m \in 0 .. n}

SmallInputs == SeqsUpTo(JunctionPool, MaxLen)

\* inputs that form one partition at or above the ceiling
BigInputs ==
    {[i \in 1 .. max_partition_size + e |-> IF i % 2 = 1 THEN J2 ELSE J3] :
        e \in 0 .. MaxExcess}

Cutoffs == {0, 40, 90}

BigCutoffs == {40, 90}

\* arguments of junction_distance
Breakends == {Breakend(n, o, pos) : n \in SeqNames, o \in {forward, reverse},
                                    pos \in {0, 40, 100}}

DistJunctions == {Junction(m1, m2, ins) : m1 \in Breakends, m2 \in Breakends,
                                          ins \in {<<>>, <<1, 2>>}}

(***************************************************************************)
(* hierarchical_clustering_method as a state machine                       *)
(***************************************************************************)
Idle ==
    /\ pc = "start"
    /\ partitions = <<>>
    /\ p = 1
    /\ subsampled = FALSE
    /\ assert_failed = FALSE
    /\ partition_size = 0
    /\ k = 0
    /\ out_of_bounds = FALSE
    /\ merge = <<>>
    /\ height = <<>>
    /\ labels = <<>>
    /\ label_to_junctions = <<>>
    /\ clusters = <<>>

Init ==
    /\ mode = "hcm"
    /\ \/ junctions \in SmallInputs /\ clustering_cutoff \in Cutoffs
       \/ junctions \in BigInputs /\ clustering_cutoff \in BigCutoffs
    /\ Idle
    /\ lhs = J1 /\ rhs = J1 /\ dist = -1

\* line 122
Partition ==
    /\ mode = "hcm" /\ pc = "start"
    /\ partitions' = partition_junctions(junctions)
    /\ pc' = "loop"
    /\ UNCHANGED <<mode, junctions, clustering_cutoff, p, subsampled, assert_failed,
                   partition_size, k, out_of_bounds, merge, height, labels,
                   label_to_junctions, clusters, lhs, rhs, dist>>

\* lines 129-134: a partition of fewer than two junctions is a cluster
Single ==
    /\ mode = "hcm" /\ pc = "loop" /\ p <= Len(partitions)
    /\ Len(partitions[p]) < 2
    /\ partition_size' = Len(partitions[p])
    /\ clusters' = Append(clusters, partitions[p])
    /\ p' = p + 1
    /\ UNCHANGED <<mode, junctions, clustering_cutoff, pc, partitions, subsampled,
                   assert_failed, k, out_of_bounds, merge, height, labels,
                   label_to_junctions, lhs, rhs, dist>>

\* lines 135-148: partition refers to the element of partitions, which the
\* assignment overwrites
Subsample ==
    /\ mode = "hcm" /\ pc = "loop" /\ p <= Len(partitions)
    /\ Len(partitions[p]) >= 2
    /\ Len(partitions[p]) > max_partition_size
    /\ \E s \in subsample_partition(partitions[p], ToUint16(max_partition_size)) :
          partitions' = [partitions EXCEPT ![p] = s]
    /\ assert_failed' =
         (assert_failed \/ ~SubsampleAssertHolds(partitions[p], ToUint16(max_partition_size)))
    /\ partition_size' = max_partition_size
    /\ subsampled' = TRUE
    /\ pc' = "matrix"
    /\ UNCHANGED <<mode, junctions, clustering_cutoff, p, k, out_of_bounds, merge,
                   height, labels, label_to_junctions, clusters, lhs, rhs, dist>>

\* lines 129-135 when the partition is within the ceiling
Keep ==
    /\ mode = "hcm" /\ pc = "loop" /\ p <= Len(partitions)
    /\ Len(partitions[p]) >= 2
    /\ ~(Len(partitions[p]) > max_partition_size)
    /\ partition_size' = Len(partitions[p])
    /\ subsampled' = FALSE
    /\ pc' = "matrix"
    /\ UNCHANGED <<mode, junctions, clustering_cutoff, partitions, p, assert_failed,
                   k, out_of_bounds, merge, height, labels, label_to_junctions,
                   clusters, lhs, rhs, dist>>

\* lines 149-165: the distance matrix and the dendrogram
Linkage ==
    /\ mode = "hcm" /\ pc = "matrix"
    /\ k' = CountK(partition_size)
    /\ out_of_bounds' = (out_of_bounds \/ \E i \in 0 .. partition_size - 1 :
                                            ~InBounds(partitions[p], i))
    /\ LET dendrogram == hclust_fast(partition_size,
                                     distmat_of(partitions[p], partition_size))
       IN  /\ merge' = dendrogram.merge
           /\ height' = dendrogram.height
    /\ pc' = "cut"
    /\ UNCHANGED <<mode, junctions, clustering_cutoff, partitions, p, subsampled,
                   assert_failed, partition_size, labels, label_to_junctions,
                   clusters, lhs, rhs, dist>>

\* lines 167-170
Cut ==
    /\ mode = "hcm" /\ pc = "cut"
    /\ labels' = ClusterLabels(partition_size, merge, height, clustering_cutoff)
    /\ pc' = "group"
    /\ UNCHANGED <<mode, junctions, clustering_cutoff, partitions, p, subsampled,
                   assert_failed, partition_size, k, out_of_bounds, merge, height,
                   label_to_junctions, clusters, lhs, rhs, dist>>

\* lines 172-182
Group ==
    /\ mode = "hcm" /\ pc = "group"
    /\ label_to_junctions' = GroupByLabel(partitions[p], labels)
    /\ pc' = "emit"
    /\ UNCHANGED <<mode, junctions, clustering_cutoff, partitions, p, subsampled,
                   assert_failed, partition_size, k, out_of_bounds, merge, height,
                   labels, clusters, lhs, rhs, dist>>

\* lines 184-190: the label groups are visited in an unspecified order
Emit ==
    /\ mode = "hcm" /\ pc = "emit"
    /\ \E order \in IterationOrders(DOMAIN label_to_junctions) :
          clusters' = clusters \o EmitClusters(label_to_junctions, order)
    /\ p' = p + 1
    /\ pc' = "loop"
    /\ UNCHANGED <<mode, junctions, clustering_cutoff, partitions, subsampled,
                   assert_failed, partition_size, k, out_of_bounds, merge, height,
                   labels, label_to_junctions, lhs, rhs, dist>>

\* lines 191-192
FinalSort ==
    /\ mode = "hcm" /\ pc = "loop" /\ p > Len(partitions)
    /\ clusters' = SortClusters(clusters)
    /\ pc' = "done"
    /\ UNCHANGED <<mode, junctions, clustering_cutoff, partitions, p, subsampled,
                   assert_failed, partition_size, k, out_of_bounds, merge, height,
                   labels, label_to_junctions, lhs, rhs, dist>>

Next ==
    \/ Partition
    \/ Single
    \/ Subsample
    \/ Keep
    \/ Linkage
    \/ Cut
    \/ Group
    \/ Emit
    \/ FinalSort

Spec == Init /\ [][Next]_vars

(***************************************************************************)
(* junction_distance applied to a pair of junctions                        *)
(***************************************************************************)
InitDist ==
    /\ mode = "dist"
    /\ lhs \in DistJunctions /\ rhs \in DistJunctions
    /\ dist = -1
    /\ junctions = <<>> /\ clustering_cutoff = 0
    /\ Idle

Distance ==
    /\ mode = "dist" /\ pc = "start"
    /\ dist' = junction_distance(lhs, rhs)
    /\ pc' = "done"
    /\ UNCHANGED <<mode, junctions, clustering_cutoff, partitions, p, subsampled,
                   assert_failed, partition_size, k, out_of_bounds, merge, height,
                   labels, label_to_junctions, clusters, lhs, rhs>>

NextDist == Distance

SpecDist == InitDist /\ [][NextDist]_vars

(***************************************************************************)
(* Vocabulary of the properties                                            *)
(***************************************************************************)
Range(s) == {s[i] : i \in DOMAIN s}

\* the positions <<a, b>> of the members of a sequence of sequences
Positions(ss) == UNION {{<<a, b>> : b \in 1 .. Len(ss[a])} : a \in 1 .. Len(ss)}

\* how often x occurs in the sequence s / in the members of ss
CountIn(s, x) == Cardinality({i \in DOMAIN s : s[i] = x})

CountInAll(ss, x) == Cardinality({pos \in Positions(ss) : ss[pos[1]][pos[2]] = x})

AllMembers(ss) == UNION {Range(ss[a]) : a \in 1 .. Len(ss)}

\* the members of ss together are exactly the elements of s, with
\* multiplicity
SameMultiset(ss, s) ==
    /\ AllMembers(ss) = Range(s)
    /\ \A x \in Range(s) : CountInAll(ss, x) = CountIn(s, x)

\* the members of ss together are among the elements of s, with
\* multiplicity
SubMultiset(ss, s) == \A x \in AllMembers(ss) : CountInAll(ss, x) <= CountIn(s, x)

SameSignature(a, b) ==
    /\ a.mate1.seq_name = b.mate1.seq_name
    /\ a.mate1.orientation = b.mate1.orientation
    /\ a.mate2.seq_name = b.mate2.seq_name
    /\ a.mate2.orientation = b.mate2.orientation

\* every position of the set S but the smallest has another one at most
\* Tolerance below it: S is linked by steps of at most Tolerance
ChainLinked(S) == \A x \in S : (x = Min(S)) \/ (\E y \in S : y < x /\ x - y <= Tolerance)

Mate1Positions(s) == {s[i].mate1.position : i \in DOMAIN s}

Mate2Positions(s) == {s[i].mate2.position : i \in DOMAIN s}

\* the state right after partition_junctions has returned
Partitioned == mode = "hcm" /\ pc = "loop" /\ p = 1

NoOversizedPartition ==
    \A part \in Range(partition_junctions(junctions)) : Len(part) <= max_partition_size

Sorted(s) == \A i \in 1 .. Len(s) - 1 : ~JunctionLess(s[i + 1], s[i])

ClustersSorted(cs) == \A i \in 1 .. Len(cs) - 1 : ~ClusterLess(cs[i + 1], cs[i])

(***************************************************************************)
(* C1: partition_junctions returns partitions whose members together are   *)
(* exactly the input junctions with multiplicity, and no partition is      *)
(* empty (empty and single-junction inputs included).                      *)
(***************************************************************************)
PartitionCoverage ==
    Partitioned =>
        /\ SameMultiset(partitions, junctions)
        /\ \A a \in DOMAIN partitions : partitions[a] # <<>>
        /\ (junctions = <<>> => partitions = <<>>)
        /\ (Len(junctions) = 1 => partitions = <<junctions>>)

\* a mate-1 group of three junctions was split in two by mate 2
PartitionCoverageWitness ==
    /\ Partitioned
    /\ junctions = <<J1, J4, J3>>
    /\ Len(partitions) = 2 /\ Len(partitions[1]) = 2

(***************************************************************************)
(* C2: when no partition exceeds the ceiling, the returned clusters are    *)
(* non-empty and their members together are exactly the input junctions    *)
(* with multiplicity.                                                      *)
(***************************************************************************)
ClusterCoverage ==
    (mode = "hcm" /\ pc = "done" /\ NoOversizedPartition) =>
        /\ \A c \in DOMAIN clusters : clusters[c] # <<>>
        /\ SameMultiset(clusters, junctions)
        /\ (Len(junctions) = 1 => clusters = <<junctions>>)

\* three junctions of one partition came out as a pair and a single one
ClusterCoverageWitness ==
    /\ mode = "hcm" /\ pc = "done"
    /\ Len(junctions) = 3 /\ Len(partitions) = 1
    /\ Len(clusters) = 2

(***************************************************************************)
(* C3: junctions that differ in the sequence name or orientation of mate 1 *)
(* or mate 2 are never in the same partition nor in the same cluster.      *)
(***************************************************************************)
SignatureSeparation ==
    /\ Partitioned =>
          \A a \in DOMAIN partitions : \A x, y \in Range(partitions[a]) : SameSignature(x, y)
    /\ mode = "hcm" =>
          \A c \in DOMAIN clusters : \A x, y \in Range(clusters[c]) : SameSignature(x, y)

\* two junctions that differ only in the orientation of mate 2 came out as
\* two clusters under the largest cutoff
SignatureSeparationWitness ==
    /\ mode = "hcm" /\ pc = "done"
    /\ junctions = <<J2, J7>>
    /\ clustering_cutoff = 90
    /\ Len(clusters) = 2

ProbeCutoffs == Cutoffs \cup {1, 41, 81, 500}

NumClusters(cutoff) ==
    Cardinality(DOMAIN GroupByLabel(partitions[p],
                    ClusterLabels(partition_size, merge, height, cutoff)))

CutoffMonotone ==
    (mode = "hcm" /\ pc = "cut") =>
        LET count == [c \in ProbeCutoffs |-> NumClusters(c)]
        IN  \A c1, c2 \in ProbeCutoffs : c1 <= c2 => count[c2] <= count[c1]

\* a partition of three junctions that falls into 3, 2 and 1 clusters
CutoffMonotoneWitness ==
    /\ mode = "hcm" /\ pc = "cut"
    /\ partition_size = 3
    /\ NumClusters(0) = 3 /\ NumClusters(41) = 2 /\ NumClusters(500) = 1

(***************************************************************************)
(* C6: two junctions of a partition get the same label exactly when they   *)
(* are joined by merges whose heights are all below the cutoff; two        *)
(* junctions at distance d > 0 stay apart for every cutoff <= d and are    *)
(* merged for every cutoff > d.                                            *)
(***************************************************************************)
\* step st.s of the dendrogram: the leaves below each merge step
LeavesBody(mg, st) ==
    LET Below(c) == IF c < 0 THEN {-c - 1} ELSE st.leaves[c]
    IN  [s |-> st.s + 1,
         leaves |-> Append(st.leaves, Below(mg[st.s][1]) \cup Below(mg[st.s][2]))]

RECURSIVE LeavesLoop(_, _, _)
LeavesLoop(mg, st, m) ==
    IF m = 0 THEN st
    ELSE IF m = 1 THEN CHOOSE r \in {LeavesBody(mg, st)} : r = r
    ELSE CHOOSE r \in {LeavesLoop(mg, mid, m - (m \div 2)) :
                        mid \in {LeavesLoop(mg, st, m \div 2)}} : r = r

SubtreeLeaves(mg) == LeavesLoop(mg, [s |-> 1, leaves |-> <<>>], Len(mg)).leaves

\* the merge steps that, with all the merge steps below them, have a
\* height below the cutoff
JoiningSteps(mg, hs, cutoff) ==
    LET leaves == SubtreeLeaves(mg)
    IN  {s \in 1 .. Len(mg) :
            \A t \in 1 .. Len(mg) :
                leaves[t] \subseteq leaves[s] => ~HeightGeq(hs[t], cutoff)}

DendrogramCut ==
    (mode = "hcm" /\ pc = "group") =>
        LET leaves == SubtreeLeaves(merge)
            joining == JoiningSteps(merge, height, clustering_cutoff)
            JoinedWith(i) == {i} \cup UNION {leaves[s] : s \in {t \in joining : i \in leaves[t]}}
            d == junction_distance(partitions[p][1], partitions[p][2])
        IN  /\ \A i \in 0 .. partition_size - 1 :
                  {j \in 0 .. partition_size - 1 : labels[j + 1] = labels[i + 1]} = JoinedWith(i)
            /\ (partition_size = 2 /\ d > 0 /\ d < INT_MAX) =>
                  /\ clustering_cutoff <= d => labels[1] # labels[2]
                  /\ clustering_cutoff > d => labels[1] = labels[2]

\* two junctions at distance 40 stay apart when the cutoff is 40
DendrogramCutWitness ==
    /\ mode = "hcm" /\ pc = "group"
    /\ partitions[p] = <<J1, J2>>
    /\ clustering_cutoff = 40
    /\ labels[1] # labels[2]

(***************************************************************************)
(* C7: a partition of more than max_partition_size junctions is cut down   *)
(* to exactly max_partition_size of its members, drawn without             *)
(* replacement, and only those reach its clusters; a partition within the  *)
(* ceiling is left as it is.                                               *)
(***************************************************************************)
InPartition == mode = "hcm" /\ pc \in {"matrix", "cut", "group", "emit"}

LabelGroups == [i \in 1 .. Cardinality(DOMAIN label_to_junctions) |->
                   label_to_junctions[i - 1]]

SubsamplingToCeiling ==
    InPartition =>
        LET original == partition_junctions(junctions)[p] IN
        IF Len(original) > max_partition_size
        THEN /\ subsampled
             /\ Len(partitions[p]) = max_partition_size
             /\ SubMultiset(<<partitions[p]>>, original)
             /\ pc = "emit" =>
                   /\ Cardinality(Positions(LabelGroups)) = max_partition_size
                   /\ SameMultiset(LabelGroups, partitions[p])
        ELSE /\ ~subsampled
             /\ partitions[p] = original

\* the label groups of a partition that was above the ceiling
SubsamplingToCeilingWitness ==
    /\ mode = "hcm" /\ pc = "emit"
    /\ Len(partition_junctions(junctions)[p]) > max_partition_size
    /\ subsampled

(***************************************************************************)
(* C8, as stated: in every partition the positions at mate 1 and at mate 2 *)
(* are each linked through members of that partition by steps of at most   *)
(* Tolerance.                                                              *)
(***************************************************************************)
ChainToleranceBothMates ==
    Partitioned =>
        \A a \in DOMAIN partitions :
            /\ ChainLinked(Mate1Positions(partitions[a]))
            /\ ChainLinked(Mate2Positions(partitions[a]))

(***************************************************************************)
(* C8, amended: in every partition the positions at mate 2 are linked      *)
(* through members of that partition; the positions at mate 1 are linked   *)
(* through the junctions of a run of consecutive input junctions that      *)
(* contains the partition and in which each junction matches the one       *)
(* before it at mate 1.                                                    *)
(***************************************************************************)
Mate1Run(a, b) == \A i \in a .. b - 1 : ~Mate1Breaks(junctions[i + 1], junctions[i])

ChainToleranceAmended ==
    Partitioned =>
        \A x \in DOMAIN partitions :
            /\ ChainLinked(Mate2Positions(partitions[x]))
            /\ \E a \in 1 .. Len(junctions) : \E b \in a .. Len(junctions) :
                  /\ Mate1Run(a, b)
                  /\ SubMultiset(<<partitions[x]>>, SubSeq(junctions, a, b))
                  /\ ChainLinked(Mate1Positions(SubSeq(junctions, a, b)))

\* a partition whose mate-1 positions 0 and 80 are linked only through a
\* junction that the mate-2 split put into another partition
ChainToleranceAmendedWitness ==
    /\ Partitioned
    /\ junctions = <<J1, J4, J3>>
    /\ partitions = << <<J1, J3>>, <<J4>> >>

(***************************************************************************)
(* C9: the members of every returned cluster are in non-decreasing         *)
(* Junction order, the clusters are in non-decreasing Cluster order, and   *)
(* the result does not depend on the order in which the label groups were  *)
(* visited.                                                                *)
(***************************************************************************)
\* the clusters of one partition when the labels are visited in
\* increasing order
ClustersOfPartition(partition, cutoff) ==
    IF Len(partition) < 2 THEN <<partition>>
    ELSE LET n == Len(partition)
             dendrogram == hclust_fast(n, distmat_of(partition, n))
             map == GroupByLabel(partition,
                        ClusterLabels(n, dendrogram.merge, dendrogram.height, cutoff))
         IN  EmitClusters(map, [i \in 1 .. Cardinality(DOMAIN map) |-> i - 1])

RECURSIVE ClustersFrom(_, _, _)
ClustersFrom(ps, a, cutoff) ==
    IF a > Len(ps) THEN <<>>
    ELSE ClustersOfPartition(ps[a], cutoff) \o ClustersFrom(ps, a + 1, cutoff)

IndexSafety ==
    mode = "hcm" =>
        /\ ~assert_failed
        /\ ~out_of_bounds
        /\ InPartition => Len(partitions[p]) = partition_size
        /\ pc \in {"cut", "group", "emit"} =>
              /\ k = (partition_size * (partition_size - 1)) \div 2
              /\ Len(merge) = partition_size - 1
              /\ Len(height) = partition_size - 1
        /\ pc \in {"group", "emit"} => Len(labels) = partition_size

\* the matrix of a subsampled partition has been filled
IndexSafetyWitness ==
    /\ mode = "hcm" /\ pc = "cut"
    /\ subsampled
    /\ k = 19900

====
